---- MODULE Spec2Model ----
(***************************************************************************)
(* Model of the two SQLite setup utilities of the notes database:          *)
(*   database/ensure_notes_schema.py  (PathResolver + SchemaEnsurer)       *)
(*   database/init_db.py              (PathResolver + Initializer)         *)
(* The file system (sidecar file, environment file, companion directory,   *)
(* database files) is the shared state; each utility is a sequential       *)
(* process whose position is pc.                                           *)
(***************************************************************************)
EXTENDS Integers, Sequences, FiniteSets, TLC

\* ------------------------------------------------------------------ bounds
\* Longest sidecar text drawn by the PathResolver specification.
MaxLen == 4
\* Number of utility runs started in one behaviour.
MaxRuns == 2

\* ------------------------------------------------------- text of a sidecar
\* A text is a sequence of characters.  The literal "File path:" of the
\* pattern is one symbol; "x" stands for any other printable character; a
\* database path written by the Initializer is one printable symbol.
HASH == "#"
SP == " "
NL == "\n"
LIT == "File path:"
XCH == "x"
ABS_DEFAULT == "/cwd/myapp.db"
CUSTOM == "/data/custom.db"

Alphabet == {HASH, SP, NL, LIT, XCH}

\* \s of the regular expression: Python's \s matches the newline too.
IsSpace(c) == c \in {SP, NL}

\* The hardcoded default file name.
DB_NAME == <<"myapp.db">>

\* str.strip(): drop leading and trailing whitespace.
RECURSIVE LStrip(_)
LStrip(s) == IF s # <<>> /\ IsSpace(Head(s)) THEN LStrip(Tail(s)) ELSE s

RECURSIVE RStrip(_)
RStrip(s) ==
    IF s # <<>> /\ IsSpace(s[Len(s)]) THEN RStrip(SubSeq(s, 1, Len(s) - 1)) ELSE s

Strip(s) == RStrip(LStrip(s))

\* Greedy \s* from position i: the first position at or after i that holds no
\* whitespace (Len(t) + 1 when the text ends first).
RECURSIVE SkipWS(_, _)
SkipWS(t, i) == IF i <= Len(t) /\ IsSpace(t[i]) THEN SkipWS(t, i + 1) ELSE i

\* ^ under re.MULTILINE: the start of the text or right after a newline.
AtLineStart(t, i) == i = 1 \/ t[i - 1] = NL

\* $ under re.MULTILINE: the end of the text or right before a newline.
AtLineEnd(t, i) == i = Len(t) + 1 \/ t[i] = NL

\* \s*$ from position i: some amount of whitespace, then a line end.
TailMatches(t, i) == \E j \in i..SkipWS(t, i) : AtLineEnd(t, j)

\* (.+?)\s*$ with the group starting at g: the group may end at e when
\* t[g..e] holds no newline and \s*$ matches after it.
GroupEnds(t, g) ==
    {e \in g..Len(t) : /\ \A k \in g..e : t[k] # NL
                       /\ TailMatches(t, e + 1)}

\* The group starts the backtracking engine may try after "File path:" at
\* position c: greedy \s* first takes all the whitespace, then gives it back
\* one character at a time.
GroupStarts(t, c) == {g \in c..SkipWS(t, c) : GroupEnds(t, g) # {}}

Max(S) == CHOOSE x \in S : \A y \in S : y <= x
Min(S) == CHOOSE x \in S : \A y \in S : x <= y

\* Position right after "File path:" when ^\s*#\s*File path: matches from i,
\* 0 when it does not.
PrefixEnd(t, i) ==
    LET a == SkipWS(t, i)
        b == SkipWS(t, a + 1)
    IN  IF /\ AtLineStart(t, i)
           /\ a <= Len(t) /\ t[a] = HASH
           /\ b <= Len(t) /\ t[b] = LIT
        THEN b + 1
        ELSE 0

\* Whether the whole pattern matches from start position i.
MatchesAt(t, i) == PrefixEnd(t, i) # 0 /\ GroupStarts(t, PrefixEnd(t, i)) # {}

\* group(1) of the match from i: greedy \s* keeps the latest possible group
\* start, the lazy group the earliest possible end.
GroupAt(t, i) ==
    LET g == Max(GroupStarts(t, PrefixEnd(t, i)))
    IN  SubSeq(t, g, Min(GroupEnds(t, g)))

\* re.search(r"^\s*#\s*File path:\s*(.+?)\s*$", text, re.MULTILINE) followed
\* by group(1).strip(), or the default when nothing matches.
SearchResult(text) ==
    LET starts == {i \in 1..(Len(text) + 1) : MatchesAt(text, i)}
    IN  IF starts = {} THEN DB_NAME ELSE Strip(GroupAt(text, Min(starts)))

\* ------------------------------------------------------------ file system
\* The two database files a run can resolve: the default one (myapp.db in
\* the working directory) and one named by a hand-written sidecar file.
Files == {"default", "custom"}

\* The file a path names.  "myapp.db" is relative to the working directory.
FileOf(path) == IF path = <<CUSTOM>> THEN "custom" ELSE "default"

\* os.path.abspath(db_path)
AbsPath(path) == IF path = DB_NAME THEN <<ABS_DEFAULT>> ELSE path

TableNames == {"app_info", "users", "notes"}

\* The four baseline rows, in the order the Initializer seeds them.
Seeds ==
    << [key |-> "project_name", value |-> "database"],
       [key |-> "version", value |-> "0.1.0"],
       [key |-> "author", value |-> "John Doe"],
       [key |-> "description", value |-> ""] >>

\* An older deployment's rows: the same keys, an earlier version.
OldRows ==
    << [key |-> "project_name", value |-> "database"],
       [key |-> "version", value |-> "0.0.9"],
       [key |-> "author", value |-> "John Doe"],
       [key |-> "description", value |-> ""] >>

NoTables == [t \in TableNames |-> "none"]
AllTables == [t \in TableNames |-> "expected"]

\* A database file: what is at the path (nothing, a database, bytes that are
\* no database, something that cannot be opened such as a directory), whether
\* it (or, when absent, its directory) is read-only, the shape of each table
\* ("none": no such table, "expected": the shape of the DDL, "legacy": another
\* shape) and the committed rows of app_info.
DbFile(kind, ro, tables, rows) ==
    [kind |-> kind, ro |-> ro, tables |-> tables, rows |-> rows]

AbsentDb == DbFile("absent", FALSE, NoTables, <<>>)
EmptyDb == DbFile("db", FALSE, NoTables, <<>>)
GarbageDb == DbFile("garbage", FALSE, NoTables, <<>>)
UnopenableDb == DbFile("unopenable", FALSE, NoTables, <<>>)
LegacyNotesDb == DbFile("db", FALSE, [NoTables EXCEPT !["notes"] = "legacy"], <<>>)
LegacyInfoDb == DbFile("db", FALSE, [NoTables EXCEPT !["app_info"] = "legacy"], <<>>)
SeededDb == DbFile("db", FALSE, AllTables, OldRows)
ReadOnly(d) == [d EXCEPT !.ro = TRUE]

\* The states the default database file may start in.
DefaultDbStates ==
    {AbsentDb, EmptyDb, GarbageDb, UnopenableDb, LegacyNotesDb, LegacyInfoDb,
     SeededDb, ReadOnly(AbsentDb), ReadOnly(EmptyDb), ReadOnly(SeededDb)}

\* The states the custom database file may start in.
CustomDbStates == {AbsentDb, GarbageDb, SeededDb}

\* The text the Initializer writes to db_connection.txt for absolute path p:
\* three comment lines, then the authoritative "# File path: <p>" line.
ConnectionText(p) ==
    <<HASH, SP, XCH, NL, HASH, SP, XCH, NL, HASH, SP, XCH, NL,
      HASH, SP, LIT, SP>> \o p \o <<NL>>

\* The sidecar file db_connection.txt.
Sidecar(exists, readable, text) ==
    [exists |-> exists, readable |-> readable, text |-> text]

NoSidecar == Sidecar(FALSE, TRUE, <<>>)

\* The sidecar files a run may find: none, one that cannot be read or
\* decoded, one with no path line, one naming the custom database.
SidecarStates ==
    {NoSidecar,
     Sidecar(TRUE, FALSE, ConnectionText(<<CUSTOM>>)),
     Sidecar(TRUE, TRUE, <<HASH, SP, XCH, NL>>),
     Sidecar(TRUE, TRUE, ConnectionText(<<CUSTOM>>))}

RECURSIVE SeqsUpTo(_, _)
SeqsUpTo(S, n) ==
    IF n = 0 THEN {<<>>}
    ELSE LET shorter == SeqsUpTo(S, n - 1)
         IN  shorter \cup {Append(s, c) : s \in shorter, c \in S}

\* ------------------------------------------------------------ PathResolver
\* init_db.py: a read failure is caught and degrades to the default.
InitGetDbPath(sc) ==
    IF ~sc.exists THEN DB_NAME
    ELSE IF ~sc.readable THEN DB_NAME
    ELSE SearchResult(sc.text)

\* ensure_notes_schema.py: open() and read() are not guarded, so a file that
\* exists but cannot be read or decoded raises out of the function.
EnsureGetDbPath(sc) ==
    IF ~sc.exists THEN [raised |-> FALSE, path |-> DB_NAME]
    ELSE IF ~sc.readable THEN [raised |-> TRUE, path |-> <<>>]
    ELSE [raised |-> FALSE, path |-> SearchResult(sc.text)]

\* ----------------------------------------------------------- the engine
\* sqlite3.connect(path): fails on something that cannot be opened and on a
\* missing file in a read-only place; creates a missing file otherwise.
CanConnect(d) == d.kind # "unopenable" /\ ~(d.kind = "absent" /\ d.ro)

AfterConnect(d) == IF d.kind = "absent" THEN [d EXCEPT !.kind = "db"] ELSE d

\* CREATE TABLE IF NOT EXISTS t (...): an error when the file is no database,
\* and when the table has to be created in a read-only database; an existing
\* table of any shape is left as it is.
\* (CreateTableFailsWithoutGuard: the statement without IF NOT EXISTS, which
\* also fails on an existing table.)
CreateTableFailsWithoutGuard(d, t) ==
    d.kind = "garbage" \/ d.tables[t] # "none" \/ d.ro

CreateTableFails(d, t) ==
    d.kind = "garbage" \/ (d.tables[t] = "none" /\ d.ro)

AfterCreateTable(d, t) ==
    IF d.tables[t] = "none" THEN [d EXCEPT !.tables[t] = "expected"] ELSE d

\* INSERT OR REPLACE INTO app_info (key, value): an error when app_info has
\* another shape (no such column) or the database is read-only.
InsertFails(d) == d.tables["app_info"] # "expected" \/ d.ro

\* The rows after INSERT OR REPLACE of r: the row holding r's key, if any,
\* is deleted and r is inserted.
\* (PlainInsert: an insert that deletes nothing.)
PlainInsert(rows, r) == Append(rows, r)

Upsert(rows, r) == SelectSeq(rows, LAMBDA x : x.key # r.key) \o <<r>>

\* SELECT COUNT(*) FROM sqlite_master WHERE type='table' AND name NOT LIKE
\* 'sqlite_%': the tables present, the engine's sqlite_sequence left out.
TableCount(d) == Cardinality({t \in TableNames : d.tables[t] # "none"})

\* ------------------------------------------------------------------ state
VARIABLES
    sidecar,       \* db_connection.txt
    sidecarMode,   \* writing it: "ok", "denied" (open fails), "nospace" (write fails)
    vizDir,        \* db_visualizer: "exists", "creatable", "uncreatable"
    envFile,       \* db_visualizer/sqlite.env: the path it exports, <<>> if none
    envMode,       \* writing it: "ok", "denied"
    db,            \* the database files
    db0,           \* the database files as they were at the start
    prog,          \* the utility running, or that ran last: "none", "init", "ensure"
    pc,            \* its position; "idle", "exited" and "killed" between runs
    runs,          \* runs started
    db_path, db_exists, db_abs_path, table_count, record_count,
    conns,         \* each connection: "none", "open", "closed"
    tx,            \* app_info's rows as the open main connection sees them
    k,             \* index of the next DDL or seed statement
    failures,      \* steps of this run that raised
    warnings,      \* steps of this run that logged a warning
    out,           \* what this run printed
    exitCode,      \* -1 while none, else the process's exit status
    raised,        \* ensure_notes_schema is propagating an sqlite3.Error
    ensHist,       \* per file: how the last call of ensure_notes_schema ended
    ensSnap,       \* the file as it was when ensure_notes_schema was called
    prev           \* the run before this one

vars ==
    <<sidecar, sidecarMode, vizDir, envFile, envMode, db, db0, prog, pc, runs,
      db_path, db_exists, db_abs_path, table_count, record_count, conns, tx, k,
      failures, warnings, out, exitCode, raised, ensHist, ensSnap, prev>>

fsVars == <<sidecar, sidecarMode, vizDir, envFile, envMode, db, db0>>
histVars == <<ensHist, ensSnap, prev>>

Unset == <<"unset">>
NoConns == [c \in {"check", "main", "ens"} |-> "none"]
NoPrev == [prog |-> "none", pc |-> "idle", path |-> Unset, exitCode |-> -1,
           failures |-> {}]

\* The values every run starts from.
Locals ==
    /\ db_path = Unset
    /\ db_exists = FALSE
    /\ db_abs_path = Unset
    /\ table_count = -1
    /\ record_count = -1
    /\ conns = NoConns
    /\ tx = <<>>
    /\ k = 1
    /\ failures = {}
    /\ warnings = {}
    /\ out = {}
    /\ exitCode = -1
    /\ raised = FALSE

Control ==
    /\ prog = "none"
    /\ pc = "idle"
    /\ runs = 0
    /\ ensHist = [f \in Files |-> "never"]
    /\ ensSnap = AbsentDb
    /\ prev = NoPrev

Init ==
    /\ sidecar \in SidecarStates
    /\ sidecarMode \in {"ok", "denied", "nospace"}
    /\ vizDir \in {"exists", "creatable", "uncreatable"}
    /\ envFile = <<>>
    /\ envMode \in {"ok", "denied"}
    /\ db \in [Files -> DefaultDbStates]
    /\ db["custom"] \in CustomDbStates
    /\ db0 = db
    /\ Locals
    /\ Control

\* The PathResolver alone: every short sidecar text, readable or not.
InitResolver ==
    /\ sidecar \in {Sidecar(e, r, t) : e \in BOOLEAN, r \in BOOLEAN,
                                       t \in SeqsUpTo(Alphabet, MaxLen)}
    /\ sidecar.exists \/ (sidecar.readable /\ sidecar.text = <<>>)
    /\ sidecarMode = "ok"
    /\ vizDir = "exists"
    /\ envFile = <<>>
    /\ envMode = "ok"
    /\ db = [f \in Files |-> AbsentDb]
    /\ db0 = db
    /\ Locals
    /\ Control

\* ------------------------------------------------------------ starting runs
pathVars == <<db_path, db_exists, db_abs_path>>
statVars == <<table_count, record_count>>
logVars == <<failures, warnings, out, exitCode>>

Between == pc \in {"idle", "exited", "killed"}

Start(p, first) ==
    /\ Between
    /\ runs < MaxRuns
    /\ prev' = [prog |-> prog, pc |-> pc, path |-> db_path,
                exitCode |-> exitCode, failures |-> failures]
    /\ prog' = p
    /\ pc' = first
    /\ runs' = runs + 1
    /\ db_path' = Unset
    /\ db_exists' = FALSE
    /\ db_abs_path' = Unset
    /\ table_count' = -1
    /\ record_count' = -1
    /\ conns' = NoConns
    /\ tx' = <<>>
    /\ k' = 1
    /\ failures' = {}
    /\ warnings' = {}
    /\ out' = {}
    /\ exitCode' = -1
    /\ raised' = FALSE
    /\ UNCHANGED <<fsVars, ensHist, ensSnap>>

\* python3 init_db.py
StartInit == Start("init", "i_resolve")

\* python3 ensure_notes_schema.py
StartEnsure == Start("ensure", "e_resolve")

\* ------------------------------------------------------------- Initializer
At(label) == prog = "init" /\ pc = label

\* The file the run works on.
Target == FileOf(db_path)

\* The Initializer's steps that sit inside a try/except Exception block.
\* (HandledAll: every step guarded.)
HandledAll(step) == TRUE

Handled(step) == step \in {"check", "sidecar", "env", "cli"}

\* The handlers that print a warning; the client detection's handler is "pass".
Warns(step) == step \in {"check", "sidecar", "env"}

\* A step raises: a handled step logs and the run goes on at `next`, any other
\* exception ends the process with a traceback and status 1.
Fail(step, next) ==
    /\ failures' = failures \cup {step}
    /\ IF Handled(step)
       THEN /\ pc' = next
            /\ warnings' = IF Warns(step) THEN warnings \cup {step} ELSE warnings
            /\ exitCode' = exitCode
       ELSE /\ pc' = "exited"
            /\ warnings' = warnings
            /\ exitCode' = 1
    /\ out' = out

\* db_path = _get_db_path_from_connection_file()
IResolve ==
    /\ At("i_resolve")
    /\ db_path' = InitGetDbPath(sidecar)
    /\ pc' = "i_exists"
    /\ UNCHANGED <<fsVars, histVars, prog, runs, db_exists, db_abs_path, statVars,
                   conns, tx, k, logVars, raised>>

\* db_exists = os.path.exists(db_path)
IExists ==
    /\ At("i_exists")
    /\ db_exists' = (db[Target].kind # "absent")
    /\ pc' = IF db_exists' THEN "i_check" ELSE "i_connect"
    /\ UNCHANGED <<fsVars, histVars, prog, runs, db_path, db_abs_path, statVars,
                   conns, tx, k, logVars, raised>>

\* The connectivity check's sqlite3.connect(db_path).
ICheckConnect ==
    /\ At("i_check")
    /\ IF CanConnect(db[Target])
       THEN /\ conns' = [conns EXCEPT !["check"] = "open"]
            /\ pc' = "i_check2"
            /\ UNCHANGED logVars
       ELSE /\ Fail("check", "i_connect")
            /\ UNCHANGED conns
    /\ UNCHANGED <<fsVars, histVars, prog, runs, pathVars, statVars, tx, k, raised>>

\* conn.execute("SELECT 1"); conn.close().  SELECT 1 reads nothing from the
\* file, so it succeeds on every open connection.
ICheckSelect ==
    /\ At("i_check2")
    /\ conns' = [conns EXCEPT !["check"] = "closed"]
    /\ out' = out \cup {"accessible"}
    /\ pc' = "i_connect"
    /\ UNCHANGED <<fsVars, histVars, prog, runs, pathVars, statVars, tx, k,
                   failures, warnings, exitCode, raised>>

\* conn = sqlite3.connect(db_path); cursor = conn.cursor()
IConnect ==
    /\ At("i_connect")
    /\ IF CanConnect(db[Target])
       THEN /\ db' = [db EXCEPT ![Target] = AfterConnect(@)]
            /\ conns' = [conns EXCEPT !["main"] = "open"]
            /\ tx' = db[Target].rows
            /\ pc' = "i_ddl"
            /\ UNCHANGED logVars
       ELSE /\ Fail("connect", "i_ddl")
            /\ UNCHANGED <<db, conns, tx>>
    /\ UNCHANGED <<sidecar, sidecarMode, vizDir, envFile, envMode, db0, histVars,
                   prog, runs, pathVars, statVars, k, raised>>

DdlOrder == <<"app_info", "users", "notes">>

\* The k-th cursor.execute("CREATE TABLE IF NOT EXISTS ...").
IDdl ==
    /\ At("i_ddl")
    /\ LET next == IF k = Len(DdlOrder) THEN "i_seed" ELSE "i_ddl"
       IN  IF CreateTableFails(db[Target], DdlOrder[k])
           THEN /\ Fail("ddl", next)
                /\ UNCHANGED db
           ELSE /\ db' = [db EXCEPT ![Target] = AfterCreateTable(@, DdlOrder[k])]
                /\ pc' = next
                /\ UNCHANGED logVars
    /\ k' = IF k = Len(DdlOrder) THEN 1 ELSE k + 1
    /\ UNCHANGED <<sidecar, sidecarMode, vizDir, envFile, envMode, db0, histVars,
                   prog, runs, pathVars, statVars, conns, tx, raised>>

\* The k-th cursor.execute("INSERT OR REPLACE INTO app_info ...").
ISeed ==
    /\ At("i_seed")
    /\ LET next == IF k = Len(Seeds) THEN "i_commit" ELSE "i_seed"
       IN  IF InsertFails(db[Target])
           THEN /\ Fail("seed", next)
                /\ UNCHANGED tx
           ELSE /\ tx' = Upsert(tx, Seeds[k])
                /\ pc' = next
                /\ UNCHANGED logVars
    /\ k' = IF k = Len(Seeds) THEN 1 ELSE k + 1
    /\ UNCHANGED <<fsVars, histVars, prog, runs, pathVars, statVars, conns, raised>>

\* conn.commit()
ICommit ==
    /\ At("i_commit")
    /\ db' = [db EXCEPT ![Target].rows = tx]
    /\ pc' = "i_stats"
    /\ UNCHANGED <<sidecar, sidecarMode, vizDir, envFile, envMode, db0, histVars,
                   prog, runs, pathVars, statVars, conns, tx, k, logVars, raised>>

\* The two statistics queries.
IStats ==
    /\ At("i_stats")
    /\ table_count' = TableCount(db[Target])
    /\ record_count' = Len(tx)
    /\ pc' = "i_close"
    /\ UNCHANGED <<fsVars, histVars, prog, runs, pathVars, conns, tx, k, logVars,
                   raised>>

\* conn.close()
IClose ==
    /\ At("i_close")
    /\ conns' = [conns EXCEPT !["main"] = "closed"]
    /\ pc' = "i_abspath"
    /\ UNCHANGED <<fsVars, histVars, prog, runs, pathVars, statVars, tx, k, logVars,
                   raised>>

\* db_abs_path = os.path.abspath(db_path)
IAbsPath ==
    /\ At("i_abspath")
    /\ db_abs_path' = AbsPath(db_path)
    /\ pc' = "i_sc_open"
    /\ UNCHANGED <<fsVars, histVars, prog, runs, db_path, db_exists, statVars,
                   conns, tx, k, logVars, raised>>

\* open("db_connection.txt", "w"): truncates the file as it opens it.
ISidecarOpen ==
    /\ At("i_sc_open")
    /\ IF sidecarMode = "denied"
       THEN /\ Fail("sidecar", "i_mkdir")
            /\ UNCHANGED sidecar
       ELSE /\ sidecar' = Sidecar(TRUE, TRUE, <<>>)
            /\ pc' = "i_sc_write"
            /\ UNCHANGED logVars
    /\ UNCHANGED <<sidecarMode, vizDir, envFile, envMode, db, db0, histVars, prog,
                   runs, pathVars, statVars, conns, tx, k, raised>>

\* The four f.write calls and the close that flushes them.
ISidecarWrite ==
    /\ At("i_sc_write")
    /\ IF sidecarMode = "nospace"
       THEN /\ Fail("sidecar", "i_mkdir")
            /\ UNCHANGED sidecar
       ELSE /\ sidecar' = Sidecar(TRUE, TRUE, ConnectionText(db_abs_path))
            /\ out' = out \cup {"saved"}
            /\ pc' = "i_mkdir"
            /\ UNCHANGED <<failures, warnings, exitCode>>
    /\ UNCHANGED <<sidecarMode, vizDir, envFile, envMode, db, db0, histVars, prog,
                   runs, pathVars, statVars, conns, tx, k, raised>>

\* if not os.path.exists("db_visualizer"): os.makedirs(...)
IMkdir ==
    /\ At("i_mkdir")
    /\ IF vizDir = "uncreatable"
       THEN /\ Fail("mkdir", "i_env")
            /\ UNCHANGED vizDir
       ELSE /\ vizDir' = "exists"
            /\ pc' = "i_env"
            /\ UNCHANGED logVars
    /\ UNCHANGED <<sidecar, sidecarMode, envFile, envMode, db, db0, histVars, prog,
                   runs, pathVars, statVars, conns, tx, k, raised>>

\* Writing db_visualizer/sqlite.env.
IEnv ==
    /\ At("i_env")
    /\ IF envMode = "denied" \/ vizDir # "exists"
       THEN /\ Fail("env", "i_summary")
            /\ UNCHANGED envFile
       ELSE /\ envFile' = db_abs_path
            /\ pc' = "i_summary"
            /\ UNCHANGED logVars
    /\ UNCHANGED <<sidecar, sidecarMode, vizDir, envMode, db, db0, histVars, prog,
                   runs, pathVars, statVars, conns, tx, k, raised>>

\* The summary: paths, usage hints and the two statistics.
ISummary ==
    /\ At("i_summary")
    /\ out' = out \cup {"summary"}
    /\ pc' = "i_cli"
    /\ UNCHANGED <<fsVars, histVars, prog, runs, pathVars, statVars, conns, tx, k,
                   failures, warnings, exitCode, raised>>

\* subprocess.run(["which", "sqlite3"]): found, not found, or cannot be run.
ICli ==
    /\ At("i_cli")
    /\ \E r \in {"found", "notfound", "error"} :
          IF r = "error"
          THEN Fail("cli", "i_done")
          ELSE /\ out' = IF r = "found" THEN out \cup {"cli_hint"} ELSE out
               /\ pc' = "i_done"
               /\ UNCHANGED <<failures, warnings, exitCode>>
    /\ UNCHANGED <<fsVars, histVars, prog, runs, pathVars, statVars, conns, tx, k,
                   raised>>

\* print("Script completed successfully."), then the script ends.
IDone ==
    /\ At("i_done")
    /\ out' = out \cup {"completed"}
    /\ exitCode' = 0
    /\ pc' = "exited"
    /\ UNCHANGED <<fsVars, histVars, prog, runs, pathVars, statVars, conns, tx, k,
                   failures, warnings, raised>>

\* The Initializer is stopped from outside: the operating system releases its
\* connections and the engine drops the uncommitted rows.
IKill ==
    /\ prog = "init"
    /\ ~Between
    /\ pc' = "killed"
    /\ exitCode' = 137
    /\ conns' = NoConns
    /\ tx' = <<>>
    /\ UNCHANGED <<fsVars, histVars, prog, runs, pathVars, statVars, k, failures,
                   warnings, out, raised>>

\* ----------------------------------------------------------- SchemaEnsurer
AtE(label) == prog = "ensure" /\ pc = label

\* main(): db_path = _get_db_path_from_connection_file(); print("Using ...").
\* The call is outside main's try block, so an exception ends the process.
EResolve ==
    /\ AtE("e_resolve")
    /\ LET r == EnsureGetDbPath(sidecar)
       IN  IF r.raised
           THEN /\ failures' = failures \cup {"resolve"}
                /\ exitCode' = 1
                /\ pc' = "exited"
                /\ UNCHANGED <<db_path, out, ensSnap>>
           ELSE /\ db_path' = r.path
                /\ out' = out \cup {"using"}
                /\ pc' = "e_connect"
                /\ ensSnap' = db[FileOf(r.path)]
                /\ UNCHANGED <<failures, exitCode>>
    /\ UNCHANGED <<fsVars, ensHist, prev, prog, runs, db_exists, db_abs_path,
                   statVars, conns, tx, k, warnings, raised>>

\* ensure_notes_schema: conn = sqlite3.connect(db_path), before the try.
EConnect ==
    /\ AtE("e_connect")
    /\ IF CanConnect(db[Target])
       THEN /\ db' = [db EXCEPT ![Target] = AfterConnect(@)]
            /\ conns' = [conns EXCEPT !["ens"] = "open"]
            /\ pc' = "e_ddl"
            /\ UNCHANGED <<failures, raised>>
       ELSE /\ failures' = failures \cup {"connect"}
            /\ raised' = TRUE
            /\ pc' = "e_main"
            /\ UNCHANGED <<db, conns>>
    /\ UNCHANGED <<sidecar, sidecarMode, vizDir, envFile, envMode, db0, histVars,
                   prog, runs, pathVars, statVars, tx, k, warnings, out, exitCode>>

\* The loop over ddl_statements: its one CREATE TABLE IF NOT EXISTS notes.
EDdl ==
    /\ AtE("e_ddl")
    /\ IF CreateTableFails(db[Target], "notes")
       THEN /\ failures' = failures \cup {"ddl"}
            /\ raised' = TRUE
            /\ pc' = "e_close"
            /\ UNCHANGED db
       ELSE /\ db' = [db EXCEPT ![Target] = AfterCreateTable(@, "notes")]
            /\ pc' = "e_commit"
            /\ UNCHANGED <<failures, raised>>
    /\ UNCHANGED <<sidecar, sidecarMode, vizDir, envFile, envMode, db0, histVars,
                   prog, runs, pathVars, statVars, conns, tx, k, warnings, out,
                   exitCode>>

\* conn.commit(): the DDL wrote no rows.
ECommit ==
    /\ AtE("e_commit")
    /\ pc' = "e_close"
    /\ UNCHANGED <<fsVars, histVars, prog, runs, pathVars, statVars, conns, tx, k,
                   logVars, raised>>

\* finally: conn.close(), on the normal and on the raising path.
CloseConn(c) == [c EXCEPT !["ens"] = "closed"]

EClose ==
    /\ AtE("e_close")
    /\ conns' = CloseConn(conns)
    /\ pc' = "e_main"
    /\ UNCHANGED <<fsVars, histVars, prog, runs, pathVars, statVars, tx, k, logVars,
                   raised>>

\* main's exit status: sys.exit(1) in the except sqlite3.Error branch.
\* (ExitStatusSwallowed: the error reported but the status left at 0.)
ExitStatusSwallowed(r) == 0

ExitStatus(r) == IF r THEN 1 ELSE 0

\* main() after ensure_notes_schema returned or raised.
EMain ==
    /\ AtE("e_main")
    /\ out' = out \cup {IF raised THEN "stderr" ELSE "ensured"}
    /\ exitCode' = ExitStatus(raised)
    /\ ensHist' = [ensHist EXCEPT ![Target] = IF raised THEN "raised" ELSE "ok"]
    /\ pc' = "exited"
    /\ UNCHANGED <<fsVars, ensSnap, prev, prog, runs, pathVars, statVars, conns, tx,
                   k, failures, warnings, raised>>

\* ---------------------------------------------------------- specifications
Next ==
    \/ StartInit
    \/ StartEnsure
    \/ IResolve
    \/ IExists
    \/ ICheckConnect
    \/ ICheckSelect
    \/ IConnect
    \/ IDdl
    \/ ISeed
    \/ ICommit
    \/ IStats
    \/ IClose
    \/ IAbsPath
    \/ ISidecarOpen
    \/ ISidecarWrite
    \/ IMkdir
    \/ IEnv
    \/ ISummary
    \/ ICli
    \/ IDone
    \/ IKill
    \/ EResolve
    \/ EConnect
    \/ EDdl
    \/ ECommit
    \/ EClose
    \/ EMain

Spec == Init /\ [][Next]_vars

\* The two PathResolvers applied to every short sidecar text.
NextResolver ==
    \/ StartInit
    \/ StartEnsure
    \/ IResolve
    \/ EResolve

SpecResolver == InitResolver /\ [][NextResolver]_vars

\* ------------------------------------------------------------------ claims
InitExited == prog = "init" /\ pc = "exited"
EnsureExited == prog = "ensure" /\ pc = "exited"
Resolved == pc \in {"i_exists", "e_connect"}

\* C1: SchemaEnsurer is idempotent.  Once ensure_notes_schema has returned on
\* a database file, a later call leaves the file (schema and contents) as it
\* found it, and a call after a successful one raises no error.
C1_EnsureIdempotent ==
    (AtE("e_main") /\ ensHist[Target] # "never") =>
        /\ db[Target] = ensSnap
        /\ ensHist[Target] = "ok" => ~raised

\* C1's case: a call returns on a file where an earlier call succeeded.
C1_Witness ==
    /\ AtE("e_main")
    /\ ensHist[Target] = "ok"
    /\ ~raised
    /\ db[Target].tables["notes"] = "expected"

\* C2 (as claimed): whenever ensure_notes_schema returns without error, the
\* notes table exists with exactly the five columns of the data model,
\* whatever the database held before.
C2_NotesShapeEnsured ==
    (EnsureExited /\ "ensured" \in out) => db[Target].tables["notes"] = "expected"

\* C3 (as claimed): neither PathResolver propagates an exception; each
\* returns a path, and a sidecar that cannot be read yields the default name.
C3_ResolverNeverRaises ==
    /\ "resolve" \notin failures
    /\ (Resolved /\ sidecar.exists /\ ~sidecar.readable) => db_path = DB_NAME

\* The lines of a text.
RECURSIVE Lines(_)
Lines(t) ==
    IF \A i \in 1..Len(t) : t[i] # NL THEN <<t>>
    ELSE LET n == Min({i \in 1..Len(t) : t[i] = NL})
         IN  <<SubSeq(t, 1, n - 1)>> \o Lines(SubSeq(t, n + 1, Len(t)))

\* The value of a line of the form "# File path: <value>" (whitespace allowed
\* before "#" and around the value), <<>> for a line of another form.
LineValue(line) ==
    LET a == LStrip(line)
        b == IF a # <<>> /\ Head(a) = HASH THEN LStrip(Tail(a)) ELSE <<>>
    IN  IF b # <<>> /\ Head(b) = LIT THEN Strip(Tail(b)) ELSE <<>>

\* The result C4 describes: the value of the first line of that form, the
\* default name when there is none or no sidecar.
ClaimedPath(sc) ==
    LET ls == Lines(sc.text)
        hits == {i \in 1..Len(ls) : LineValue(ls[i]) # <<>>}
    IN  IF ~sc.exists \/ hits = {} THEN DB_NAME ELSE LineValue(ls[Min(hits)])

\* C4 (as claimed): for every readable sidecar text the PathResolver returns
\* the trimmed value of the first "# File path: <value>" line, and the
\* default name when no line has that form or the file is absent.
C4_FirstPathLine ==
    (Resolved /\ sidecar.readable) => db_path = ClaimedPath(sidecar)

C6_ExitStatusTracksEnsure ==
    EnsureExited =>
        /\ (exitCode = 0) <=> ("using" \in out /\ failures = {})
        /\ (exitCode = 0) <=> ("ensured" \in out)
        /\ (failures \cap {"connect", "ddl"} # {})
              => ("stderr" \in out /\ "ensured" \notin out /\ exitCode # 0)

\* C6's case: the DDL raised and the process has exited.
C6_Witness ==
    /\ EnsureExited
    /\ "ddl" \in failures
    /\ "stderr" \in out
    /\ exitCode = 1

\* C7 (as claimed): when the database steps succeed and the sidecar write
\* fails, the Initializer still runs every later step, prints its summary
\* with the statistics, and completes.
C7_SidecarFailureNonFatal ==
    (InitExited /\ "sidecar" \in failures) =>
        /\ "summary" \in out
        /\ "completed" \in out
        /\ exitCode = 0

\* C8 (as claimed): every connection a utility opened is closed before
\* control leaves the step that opened it, on success and on failure.
C8_ConnectionsReleased ==
    /\ pc = "exited" => \A c \in DOMAIN conns : conns[c] # "open"
    /\ AtE("e_main") => conns["ens"] # "open"
    /\ (prog = "init" /\ pc # "i_check2") => conns["check"] # "open"

\* The four baseline pairs are among the committed rows of d.
HasBaseline(d) ==
    \A i \in 1..Len(Seeds) : \E j \in 1..Len(d.rows) : d.rows[j] = Seeds[i]

\* C9 (as claimed, for a re-run none of whose own steps fails): a re-run of
\* the Initializer after a run that failed or was stopped targets the same
\* database file, and when it completes that database has the three tables
\* and the four baseline pairs and both files hold its absolute path.
C9_RerunConverges ==
    ( /\ InitExited
      /\ exitCode = 0
      /\ failures = {}
      /\ prev.prog = "init"
      /\ prev.path # Unset
      /\ prev.pc = "killed" \/ prev.exitCode = 1 \/ prev.failures # {} ) =>
        /\ Target = FileOf(prev.path)
        /\ \A t \in TableNames : db[Target].tables[t] # "none"
        /\ HasBaseline(db[Target])
        /\ sidecar.exists /\ SearchResult(sidecar.text) = AbsPath(db_path)
        /\ envFile = AbsPath(db_path)

\* The database file the run works on held no table when the model started.
StartedEmpty ==
    /\ db0[Target].kind \in {"absent", "db"}
    /\ db0[Target].tables = NoTables
    /\ db0[Target].rows = <<>>

\* C10: starting from an empty database, every completed Initializer run
\* reports 3 user tables and 4 app_info rows, and app_info holds exactly one
\* row per baseline key, with the seeded value.
C10_CountsAfterInit ==
    (InitExited /\ exitCode = 0 /\ StartedEmpty) =>
        /\ table_count = 3
        /\ record_count = 4
        /\ Len(db[Target].rows) = 4
        /\ HasBaseline(db[Target])

\* C10's case: a completed re-run on a database an earlier run initialized.
C10_Witness ==
    /\ InitExited
    /\ exitCode = 0
    /\ StartedEmpty
    /\ prev.prog = "init"
    /\ prev.exitCode = 0
    /\ FileOf(prev.path) = Target
    /\ record_count = 4

====
